---- MODULE Spec2Model ----
(***************************************************************************)
(* Announcement endpoints of the High School Management System API         *)
(* (src/backend/routers/announcements.py), as a state machine.             *)
(*                                                                         *)
(* State: the announcements collection, the clock read by datetime.now(),  *)
(* the ObjectId generator of the driver, and for every request worker the  *)
(* request it serves, its position in the handler and its response.        *)
(* Python values are tagged with their type, so that a str never equals an *)
(* ObjectId and str() is a real conversion.                                *)
(***************************************************************************)
EXTENDS Integers, FiniteSets, Sequences, TLC

\* the fields of the tagged values, documents, requests, responses and driver
\* results below, and what each holds. Every record below lists its fields in
\* this order, the order in which TLC keeps them, so that a value is built
\* already normalised.
Fields ==
    [t |-> "Python type", v |-> "value",
     _id |-> "key of a stored document", id |-> "key as shown to clients",
     key |-> "key of a created document", op |-> "endpoint",
     username |-> "caller identifier", announcement_id |-> "path parameter",
     message |-> "text", expiration |-> "end of visibility",
     start_date |-> "start of visibility", display_name |-> "teacher name",
     status |-> "HTTP status", detail |-> "error detail", body |-> "result",
     ok |-> "gate passed", coll |-> "collection after the call",
     doc |-> "inserted document", inserted_id |-> "InsertOneResult",
     matched_count |-> "UpdateResult", deleted_count |-> "DeleteResult",
     matched |-> "handler goes on", resp |-> "response", success |-> "flag"]

(* ------------------------------ bounds -------------------------------- *)
MaxRequests == 2
MaxTime == 2

(* --------------------------- Python values ----------------------------- *)
None == [t |-> "None", v |-> 0]
Str(s) == [t |-> "str", v |-> s]
Datetime(n) == [t |-> "datetime", v |-> n]
ObjectId(n) == [t |-> "ObjectId", v |-> n]

\* str(x): the identity on a str, the 24-digit hex form of an ObjectId
py_str(x) ==
    IF x.t = "ObjectId" THEN Str("65f0c0ffee0123456789abc" \o ToString(x.v))
    ELSE IF x.t = "str" THEN x
    ELSE Str(x.t)

\* Python truthiness of an Optional[str]: None and "" are falsy
Truthy(x) == x /= None /\ x /= Str("")

\* d.pop(k) / d[k] = v on a dict
DictPop(d, k) == [f \in DOMAIN d \ {k} |-> d[f]]
DictSet(d, k, x) == [f \in DOMAIN d \cup {k} |-> IF f = k THEN x ELSE d[f]]

(* --------------------------- collections ------------------------------- *)
\* database.teachers_collection: documents keyed by the username
teachers_collection == {[_id |-> Str("mrodriguez"), display_name |-> Str("Ms. Rodriguez")]}

\* documents present in database.announcements_collection at start-up: one
\* that an earlier run of create_announcement left under its ObjectId, and one
\* seeded under a str key, as the database module keys what it seeds
SeedAnnouncements ==
    {[_id |-> ObjectId(0), message |-> Str("Staff meeting"),
      expiration |-> Datetime(2), start_date |-> Datetime(1)],
     [_id |-> Str("welcome"), message |-> Str("Welcome back"),
      expiration |-> Datetime(1), start_date |-> None]}

\* collection.find_one({"_id": key})
find_one(coll, key) ==
    IF \E d \in coll : d._id = key
    THEN CHOOSE d \in coll : d._id = key
    ELSE None

\* mutant: the filter written with $gt
find_gte_Strict(coll, now) == {d \in coll : d.expiration.v > now.v}

\* collection.find({"expiration": {"$gte": now}})
find_gte(coll, now) == {d \in coll : d.expiration.v >= now.v}

\* mutant: the document keyed by its message, as the database module keys
\* what it seeds ({"_id": name, ...})
insert_one_KeyedByMessage(coll, doc, oid) ==
    LET stored == DictSet(doc, "_id", doc.message)
    IN  [coll |-> coll \cup {stored}, doc |-> stored, inserted_id |-> oid]

\* collection.insert_one(doc): the driver adds a fresh ObjectId to the dict it
\* is given (the caller's dict is mutated) and stores the document
insert_one(coll, doc, oid) ==
    LET stored == DictSet(doc, "_id", oid)
    IN  [coll |-> coll \cup {stored}, doc |-> stored, inserted_id |-> oid]

\* mutant: update_one(..., upsert=True)
update_one_Upsert(coll, key, fields) ==
    LET hit == {d \in coll : d._id = key}
        set(d) == [f \in DOMAIN d \cup DOMAIN fields |->
                     IF f \in DOMAIN fields THEN fields[f] ELSE d[f]]
        blank == [_id |-> key, message |-> None, expiration |-> None,
                  start_date |-> None]
    IN  [coll |-> IF hit = {} THEN coll \cup {set(blank)}
                  ELSE (coll \ hit) \cup {set(d) : d \in hit},
         matched_count |-> Cardinality(hit)]

\* collection.update_one({"_id": key}, {"$set": fields})
update_one(coll, key, fields) ==
    LET hit == {d \in coll : d._id = key}
        set(d) == [f \in DOMAIN d \cup DOMAIN fields |->
                     IF f \in DOMAIN fields THEN fields[f] ELSE d[f]]
    IN  [coll |-> (coll \ hit) \cup {set(d) : d \in hit},
         matched_count |-> Cardinality(hit)]

\* collection.delete_one({"_id": key})
delete_one(coll, key) ==
    LET hit == {d \in coll : d._id = key}
    IN  [coll |-> coll \ hit, deleted_count |-> Cardinality(hit)]

(* ----------------------------- responses ------------------------------- *)
HTTPException(status_code, detail) ==
    [status |-> status_code, detail |-> detail, body |-> None]
Ok(body) == [status |-> 200, detail |-> "", body |-> body]
NoResponse == [status |-> 0, detail |-> "", body |-> None]

Unauthenticated(r) == r.status = 401 /\ r.detail = "Authentication required."
InvalidCaller(r) == r.status = 401 /\ r.detail = "Invalid user."
NoFieldsToUpdate(r) == r.status = 400 /\ r.detail = "No fields to update."
NotFound(r) == r.status = 404 /\ r.detail = "Announcement not found."
Succeeded(r) == r.status = 200

(* ------------------------------ handlers ------------------------------- *)
\* mutant: the directory lookup left out
require_auth_NoDirectoryCheck(username) ==
    IF ~Truthy(username)
    THEN [ok |-> FALSE, resp |-> HTTPException(401, "Authentication required.")]
    ELSE [ok |-> TRUE, resp |-> NoResponse]

\* require_auth: the dependency of the three management endpoints
require_auth(username) ==
    IF ~Truthy(username)
    THEN [ok |-> FALSE, resp |-> HTTPException(401, "Authentication required.")]
    ELSE IF find_one(teachers_collection, username) = None
    THEN [ok |-> FALSE, resp |-> HTTPException(401, "Invalid user.")]
    ELSE [ok |-> TRUE, resp |-> NoResponse]

\* ann["id"] = str(ann.pop("_id"))
Normalize(ann) == DictSet(DictPop(ann, "_id"), "id", py_str(ann._id))

\* GET /announcements
get_announcements(coll, now) ==
    Ok({Normalize(ann) : ann \in find_gte(coll, now)})

\* mutant: the id taken from the dict before the insert (str(ann.get("id")))
create_announcement_IdBeforeInsert(coll, oid, message, expiration, start_date) ==
    LET ann == [message |-> message, expiration |-> expiration,
                start_date |-> start_date]
        result == insert_one(coll, ann, oid)
    IN  [coll |-> result.coll,
         resp |-> Ok(DictSet(result.doc, "id", py_str(None)))]

\* POST /announcements, after require_auth
create_announcement(coll, oid, message, expiration, start_date) ==
    LET ann == [message |-> message, expiration |-> expiration,
                start_date |-> start_date]
        result == insert_one(coll, ann, oid)
    IN  [coll |-> result.coll,
         resp |-> Ok(DictSet(result.doc, "id", py_str(result.inserted_id)))]

\* mutant: every parameter put in the patch, None included
UpdateFields_All(message, expiration, start_date) ==
    [message |-> message, expiration |-> expiration, start_date |-> start_date]

\* mutant: the None test left out for start_date
UpdateFields_StartDateAlways(message, expiration, start_date) ==
    LET given == [message |-> message, expiration |-> expiration,
                  start_date |-> start_date]
    IN  [f \in {g \in DOMAIN given : given[g] /= None \/ g = "start_date"}
           |-> given[f]]

\* update_fields of PUT /announcements/{announcement_id}
UpdateFields(message, expiration, start_date) ==
    LET given == [message |-> message, expiration |-> expiration,
                  start_date |-> start_date]
    IN  [f \in {g \in DOMAIN given : given[g] /= None} |-> given[f]]

\* mutant: the empty-patch test left out
update_announcement_NoEmptyTest(coll, announcement_id, message, expiration, start_date) ==
    LET update_fields == UpdateFields(message, expiration, start_date)
        result == update_one(coll, announcement_id, update_fields)
    IN  IF result.matched_count = 0
        THEN [coll |-> result.coll, matched |-> FALSE,
              resp |-> HTTPException(404, "Announcement not found.")]
        ELSE [coll |-> result.coll, matched |-> TRUE, resp |-> NoResponse]

\* mutant: the write and its matched_count test put before the empty-patch test
update_announcement_ExistenceFirst(coll, announcement_id, message, expiration, start_date) ==
    LET update_fields == UpdateFields(message, expiration, start_date)
        result == update_one(coll, announcement_id, update_fields)
    IN  IF result.matched_count = 0
        THEN [coll |-> result.coll, matched |-> FALSE,
              resp |-> HTTPException(404, "Announcement not found.")]
        ELSE IF DOMAIN update_fields = {}
        THEN [coll |-> coll, matched |-> FALSE,
              resp |-> HTTPException(400, "No fields to update.")]
        ELSE [coll |-> result.coll, matched |-> TRUE, resp |-> NoResponse]

\* PUT /announcements/{announcement_id}, after require_auth, up to the write:
\* matched is TRUE when the handler goes on to re-read the document
update_announcement(coll, announcement_id, message, expiration, start_date) ==
    LET update_fields == UpdateFields(message, expiration, start_date)
        result == update_one(coll, announcement_id, update_fields)
    IN  IF DOMAIN update_fields = {}
        THEN [coll |-> coll, matched |-> FALSE,
              resp |-> HTTPException(400, "No fields to update.")]
        ELSE IF result.matched_count = 0
        THEN [coll |-> result.coll, matched |-> FALSE,
              resp |-> HTTPException(404, "Announcement not found.")]
        ELSE [coll |-> result.coll, matched |-> TRUE, resp |-> NoResponse]

\* PUT /announcements/{announcement_id}: the re-read and the result; ann.pop
\* on the None of a vanished document raises AttributeError
update_reread(coll, announcement_id) ==
    LET ann == find_one(coll, announcement_id)
    IN  IF ann = None
        THEN HTTPException(500, "AttributeError")
        ELSE Ok(Normalize(ann))

\* DELETE /announcements/{announcement_id}, after require_auth
delete_announcement(coll, announcement_id) ==
    LET result == delete_one(coll, announcement_id)
    IN  IF result.deleted_count = 0
        THEN [coll |-> result.coll,
              resp |-> HTTPException(404, "Announcement not found.")]
        ELSE [coll |-> result.coll, resp |-> Ok([success |-> TRUE])]

(* ------------------------------- state --------------------------------- *)
VARIABLES
    store,      \* announcements_collection: a set of documents, _id unique
    clock,      \* the instant datetime.now() returns
    nextOid,    \* the driver's ObjectId generator
    pc,         \* pc[w]: where worker w is in its handler
    req,        \* req[w]: the request worker w serves
    resp,       \* resp[w]: the response worker w has produced
    started,    \* number of requests accepted so far
    created,    \* history: what each successful Create returned
    patched,    \* history: the ids whose document an Update wrote
    removed,    \* history: the ids whose document a Delete removed
    wrote       \* history: wrote[w] is the document as w's own write left it

vars == <<store, clock, nextOid, pc, req, resp, started, created, patched, removed, wrote>>

Workers == {"w1", "w2"}

NoRequest ==
    [op |-> "none", username |-> None, announcement_id |-> None,
     message |-> None, expiration |-> None, start_date |-> None]

(* the values a client sends *)
Usernames == {None, Str(""), Str("mrodriguez"), Str("ghost")}
NewMessages == {Str("Exam Friday")}
PatchMessages == {None, Str("Exam moved to Monday")}
Expirations == {Datetime(1), Datetime(2)}
StartDates == {None, Datetime(2)}
PatchExpirations == {None, Datetime(2)}
PatchStartDates == {None, Datetime(1)}

\* ids a client can name: those it was shown by the service, and one that
\* never existed
KnownIds ==
    {py_str(d._id) : d \in SeedAnnouncements} \cup {c.id : c \in created}
        \cup {Str("missing")}

Init ==
    /\ store = SeedAnnouncements
    /\ clock = 0
    /\ nextOid = 1
    /\ pc = [w \in Workers |-> "idle"]
    /\ req = [w \in Workers |-> NoRequest]
    /\ resp = [w \in Workers |-> NoResponse]
    /\ started = 0
    /\ created = {}
    /\ patched = {}
    /\ removed = {}
    /\ wrote = [w \in Workers |-> None]

(* ------------------------------ requests ------------------------------- *)
Accept(w, r) ==
    /\ pc[w] = "idle"
    /\ started < MaxRequests
    /\ req' = [req EXCEPT ![w] = r]
    /\ pc' = [pc EXCEPT ![w] = IF r.op = "list" THEN "handler" ELSE "auth"]
    /\ started' = started + 1
    /\ UNCHANGED <<store, clock, nextOid, resp, created, patched, removed, wrote>>

\* GET /announcements: no dependency, no parameter
ListRequest(w) ==
    Accept(w, [NoRequest EXCEPT !.op = "list"])

\* POST /announcements?message=..&expiration=..[&start_date=..][&username=..]
CreateRequest(w, callers) ==
    \E u \in callers, m \in NewMessages, e \in Expirations, s \in StartDates :
        Accept(w, [op |-> "create", username |-> u, announcement_id |-> None,
                   message |-> m, expiration |-> e, start_date |-> s])

\* PUT /announcements/{announcement_id}[?message=..][&expiration=..]...
UpdateRequest(w, callers) ==
    \E u \in callers, i \in KnownIds, m \in PatchMessages,
       e \in PatchExpirations, s \in PatchStartDates :
        Accept(w, [op |-> "update", username |-> u, announcement_id |-> i,
                   message |-> m, expiration |-> e, start_date |-> s])

\* DELETE /announcements/{announcement_id}[?username=..]
DeleteRequest(w, callers) ==
    \E u \in callers, i \in KnownIds :
        Accept(w, [NoRequest EXCEPT !.op = "delete", !.username = u,
                                    !.announcement_id = i])

(* ------------------------------- steps --------------------------------- *)
\* mutant: the endpoints declared without Depends(require_auth)
RequireAuth_NotDeclared(w) ==
    /\ pc[w] = "auth"
    /\ pc' = [pc EXCEPT ![w] = "handler"]
    /\ UNCHANGED <<store, clock, nextOid, req, resp, started, created, patched, removed, wrote>>

\* Depends(require_auth) runs before the body of the endpoint
RequireAuth(w) ==
    /\ pc[w] = "auth"
    /\ LET auth == require_auth(req[w].username)
       IN  IF auth.ok
           THEN /\ pc' = [pc EXCEPT ![w] = "handler"]
                /\ UNCHANGED resp
           ELSE /\ pc' = [pc EXCEPT ![w] = "done"]
                /\ resp' = [resp EXCEPT ![w] = auth.resp]
    /\ UNCHANGED <<store, clock, nextOid, req, started, created, patched, removed, wrote>>

\* mutant: the listing also drops what has expired
GetAnnouncements_PurgesExpired(w) ==
    /\ pc[w] = "handler" /\ req[w].op = "list"
    /\ resp' = [resp EXCEPT ![w] = get_announcements(store, Datetime(clock))]
    /\ store' = find_gte(store, Datetime(clock))
    /\ pc' = [pc EXCEPT ![w] = "done"]
    /\ UNCHANGED <<clock, nextOid, req, started, created, patched, removed, wrote>>

GetAnnouncements(w) ==
    /\ pc[w] = "handler" /\ req[w].op = "list"
    /\ resp' = [resp EXCEPT ![w] = get_announcements(store, Datetime(clock))]
    /\ pc' = [pc EXCEPT ![w] = "done"]
    /\ UNCHANGED <<store, clock, nextOid, req, started, created, patched, removed, wrote>>

CreateAnnouncement(w) ==
    /\ pc[w] = "handler" /\ req[w].op = "create"
    /\ LET out == create_announcement(store, ObjectId(nextOid), req[w].message,
                                      req[w].expiration, req[w].start_date)
       IN  /\ store' = out.coll
           /\ resp' = [resp EXCEPT ![w] = out.resp]
           /\ created' = created \cup
                  {[id |-> out.resp.body.id, key |-> ObjectId(nextOid),
                    message |-> req[w].message, expiration |-> req[w].expiration,
                    start_date |-> req[w].start_date]}
    /\ nextOid' = nextOid + 1
    /\ pc' = [pc EXCEPT ![w] = "done"]
    /\ UNCHANGED <<clock, req, started, patched, removed, wrote>>

\* lines 62-75: the patch, the write, the matched_count test
UpdateWrite(w) ==
    /\ pc[w] = "handler" /\ req[w].op = "update"
    /\ LET out == update_announcement(store, req[w].announcement_id,
                      req[w].message, req[w].expiration, req[w].start_date)
       IN  /\ store' = out.coll
           /\ IF out.matched
              THEN /\ pc' = [pc EXCEPT ![w] = "reread"]
                   /\ patched' = patched \cup {req[w].announcement_id}
                   /\ wrote' = [wrote EXCEPT ![w] =
                                   find_one(out.coll, req[w].announcement_id)]
                   /\ UNCHANGED resp
              ELSE /\ pc' = [pc EXCEPT ![w] = "done"]
                   /\ resp' = [resp EXCEPT ![w] = out.resp]
                   /\ UNCHANGED <<patched, wrote>>
    /\ UNCHANGED <<clock, nextOid, req, started, created, removed>>

\* mutant: the result put together from the request instead of re-read
UpdateReread_FromRequest(w) ==
    /\ pc[w] = "reread"
    /\ resp' = [resp EXCEPT ![w] =
                  Ok([id |-> req[w].announcement_id, message |-> req[w].message,
                      expiration |-> req[w].expiration,
                      start_date |-> req[w].start_date])]
    /\ pc' = [pc EXCEPT ![w] = "done"]
    /\ UNCHANGED <<store, clock, nextOid, req, started, created, patched, removed, wrote>>

\* lines 76-78: the re-read, a second store operation
UpdateReread(w) ==
    /\ pc[w] = "reread"
    /\ resp' = [resp EXCEPT ![w] = update_reread(store, req[w].announcement_id)]
    /\ pc' = [pc EXCEPT ![w] = "done"]
    /\ UNCHANGED <<store, clock, nextOid, req, started, created, patched, removed, wrote>>

DeleteAnnouncement(w) ==
    /\ pc[w] = "handler" /\ req[w].op = "delete"
    /\ LET out == delete_announcement(store, req[w].announcement_id)
       IN  /\ store' = out.coll
           /\ resp' = [resp EXCEPT ![w] = out.resp]
           /\ removed' = IF Succeeded(out.resp)
                         THEN removed \cup {req[w].announcement_id}
                         ELSE removed
    /\ pc' = [pc EXCEPT ![w] = "done"]
    /\ UNCHANGED <<clock, nextOid, req, started, created, patched, wrote>>

\* the response is sent; the worker is free again
Return(w) ==
    /\ pc[w] = "done"
    /\ pc' = [pc EXCEPT ![w] = "idle"]
    /\ req' = [req EXCEPT ![w] = NoRequest]
    /\ resp' = [resp EXCEPT ![w] = NoResponse]
    /\ wrote' = [wrote EXCEPT ![w] = None]
    /\ UNCHANGED <<store, clock, nextOid, started, created, patched, removed>>

\* time passes
Tick ==
    /\ clock < MaxTime
    /\ clock' = clock + 1
    /\ UNCHANGED <<store, nextOid, pc, req, resp, started, created, patched, removed, wrote>>

\* a client sends a request, its caller identifier among callers
Request(w, callers) ==
    \/ ListRequest(w)
    \/ CreateRequest(w, callers)
    \/ UpdateRequest(w, callers)
    \/ DeleteRequest(w, callers)

\* worker w takes the next step of the request it serves
Serve(w) ==
    \/ RequireAuth(w)
    \/ GetAnnouncements(w)
    \/ CreateAnnouncement(w)
    \/ UpdateWrite(w)
    \/ UpdateReread(w)
    \/ DeleteAnnouncement(w)
    \/ Return(w)

\* requests of any caller, served one after the other
Next == Tick \/ Request("w1", Usernames) \/ Serve("w1")

Spec == Init /\ [][Next]_vars

\* requests of a teacher, served by the thread pool two at a time, their steps
\* interleaved in any order within one instant of the clock
NextConcurrent ==
    \E w \in Workers : Request(w, {Str("mrodriguez")}) \/ Serve(w)

SpecConcurrent == Init /\ [][NextConcurrent]_vars

(* ------------------------- vocabulary of the claims --------------------- *)
Mutating == {"create", "update", "delete"}
Absent(u) == u = None \/ u = Str("")
InDirectory(u) == \E t \in teachers_collection : t._id = u
PatchNames == {"message", "expiration", "start_date"}

\* worker w takes the step that leaves position p
Leaves(w, p) == pc[w] = p /\ pc'[w] /= p
Does(w, op) == Leaves(w, "handler") /\ req[w].op = op

\* the announcement the service shows for document d
Shown(d) ==
    [id |-> py_str(d._id), message |-> d.message, expiration |-> d.expiration,
     start_date |-> d.start_date]

\* the id names a document of the store, as the service shows its documents
Exists(coll, id) == \E d \in coll : py_str(d._id) = id

(* ------------------------------- claims -------------------------------- *)
\* C1: Create, Update and Delete without a caller identifier (absent or empty)
\* end Unauthenticated, with an identifier unknown to the directory end
\* InvalidCaller, whatever the other arguments; only requests of callers in the
\* directory reach the body of a mutating endpoint; List Active succeeds
\* without any caller identifier.
C1_AuthenticationContract ==
    \A w \in Workers :
        /\ (pc[w] = "done" /\ req[w].op \in Mutating /\ Absent(req[w].username))
              => Unauthenticated(resp[w])
        /\ (pc[w] = "done" /\ req[w].op \in Mutating
              /\ ~Absent(req[w].username) /\ ~InDirectory(req[w].username))
              => InvalidCaller(resp[w])
        /\ (pc[w] \in {"handler", "reread"} /\ req[w].op \in Mutating)
              => (~Absent(req[w].username) /\ InDirectory(req[w].username))
        /\ (pc[w] = "done" /\ req[w].op = "list")
              => (Succeeded(resp[w]) /\ req[w].username = None)

C1_Witness ==
    \E w \in Workers :
        /\ pc[w] = "done" /\ req[w].op = "update"
        /\ req[w].username = Str("ghost")
        /\ req[w].announcement_id = Str("welcome")
        /\ req[w].message /= None
        /\ InvalidCaller(resp[w])

\* C2: the gate comes before any write: a step in which a request ends
\* Unauthenticated or InvalidCaller leaves the store as it was, and the store
\* changes only in the body of a mutating endpoint whose caller passed the gate.
C2_GateBeforeWrite ==
    [][/\ \A w \in Workers :
              (Leaves(w, "auth") /\ pc'[w] = "done")
                 => /\ store' = store
                    /\ Unauthenticated(resp'[w]) \/ InvalidCaller(resp'[w])
       /\ \A w \in Workers : pc[w] = "auth" => (store' = store \/ pc'[w] = "auth")
       /\ store' /= store
             => \E w \in Workers :
                    /\ Leaves(w, "handler") /\ req[w].op \in Mutating
                    /\ ~Absent(req[w].username) /\ InDirectory(req[w].username)
      ]_vars

C2_Witness ==
    \E w \in Workers :
        /\ pc[w] = "done" /\ req[w].op = "delete"
        /\ req[w].announcement_id = Str("welcome")
        /\ Unauthenticated(resp[w])
        /\ store = SeedAnnouncements

\* C3: List Active evaluated at instant now returns exactly the stored
\* announcements with expiration >= now (expiration = now included, expiration
\* < now excluded), whatever their start_date.
C3_ListActiveExact ==
    [][\A w \in Workers :
           Does(w, "list")
              => /\ Succeeded(resp'[w])
                 /\ resp'[w].body =
                        {Shown(d) : d \in {x \in store : x.expiration.v >= clock}}
      ]_vars

\* an expired document is left out while one expiring now, whose start_date is
\* not before now, is listed
C3_Witness ==
    \E w \in Workers :
        /\ pc[w] = "done" /\ req[w].op = "list"
        /\ \E d \in store :
              d.expiration.v < clock /\ Shown(d) \notin resp[w].body
        /\ \E d \in store :
              /\ d.expiration.v = clock /\ d.start_date = Datetime(clock)
              /\ Shown(d) \in resp[w].body

\* C4: a successful Create returns a str id that no document of the store
\* had before, with the message, expiration and start_date given (None when
\* omitted); and every List Active evaluated no later than the expiration of a
\* created announcement that no Update or Delete has hit since shows it with
\* the id Create returned and the same message and expiration.
C4_CreateThenList ==
    [][\A w \in Workers :
           /\ Does(w, "create")
                 => /\ Succeeded(resp'[w])
                    /\ resp'[w].body.id.t = "str"
                    /\ ~Exists(store, resp'[w].body.id)
                    /\ resp'[w].body.message = req[w].message
                    /\ resp'[w].body.expiration = req[w].expiration
                    /\ resp'[w].body.start_date = req[w].start_date
                    /\ Cardinality(store') = Cardinality(store) + 1
           /\ Does(w, "list")
                 => \A c \in created :
                        (c.id \notin patched \cup removed /\ clock <= c.expiration.v)
                           => \E a \in resp'[w].body :
                                  /\ a.id = c.id
                                  /\ a.message = c.message
                                  /\ a.expiration = c.expiration
      ]_vars

\* a List Active at the very instant a created announcement expires (an older
\* document has expired and is left out) shows it
C4_Witness ==
    \E w \in Workers :
        /\ pc[w] = "done" /\ req[w].op = "list"
        /\ \E d \in store : d.expiration.v < clock /\ Shown(d) \notin resp[w].body
        /\ \E c \in created :
              /\ c.start_date = None
              /\ c.expiration.v = clock
              /\ \E a \in resp[w].body :
                    a.id = c.id /\ a.message = c.message /\ a.start_date = None

\* C5: an Update whose write matched overwrites, on the document with the
\* given id, exactly the fields supplied among message, expiration and
\* start_date; the fields not supplied and every other document are unchanged.
C5_UpdatePatchesSuppliedOnly ==
    [][\A w \in Workers :
           (Does(w, "update") /\ pc'[w] = "reread")
              => /\ {d._id : d \in store'} = {d._id : d \in store}
                 /\ Cardinality(store') = Cardinality(store)
                 /\ \A d \in store :
                        IF d._id = req[w].announcement_id
                        THEN \E e \in store' :
                                /\ e._id = d._id
                                /\ DOMAIN e = DOMAIN d
                                /\ \A f \in PatchNames :
                                      e[f] = IF req[w][f] /= None
                                             THEN req[w][f] ELSE d[f]
                        ELSE d \in store'
      ]_vars

\* Update supplying only message: the result has the new message and the
\* expiration and start_date the document had
C5_Witness ==
    \E w \in Workers :
        /\ pc[w] = "done" /\ req[w].op = "update" /\ Succeeded(resp[w])
        /\ req[w].message = Str("Exam moved to Monday")
        /\ req[w].expiration = None /\ req[w].start_date = None
        /\ resp[w].body.message = req[w].message
        /\ \E d \in SeedAnnouncements :
              /\ py_str(d._id) = resp[w].body.id
              /\ resp[w].body.expiration = d.expiration
              /\ resp[w].body.start_date = d.start_date
              /\ resp[w].body.message /= d.message

\* C6: Update by a caller who passed the gate, with none of message,
\* expiration, start_date supplied, ends NoFieldsToUpdate and leaves the store
\* as it was, whether or not the id names a document.
C6_EmptyPatchRejected ==
    [][\A w \in Workers :
           (Does(w, "update")
              /\ \A f \in PatchNames : req[w][f] = None)
              => /\ pc'[w] = "done"
                 /\ NoFieldsToUpdate(resp'[w])
                 /\ store' = store
      ]_vars

C6_Witness ==
    \E w \in Workers :
        /\ pc[w] = "done" /\ req[w].op = "update"
        /\ InDirectory(req[w].username)
        /\ \A f \in PatchNames : req[w][f] = None
        /\ Exists(store, req[w].announcement_id)
        /\ NoFieldsToUpdate(resp[w])

\* C7: Update by a caller who passed the gate, with a field supplied, on an id
\* that names no document ends NotFound and leaves the store as it was.
C7_UpdateMissingNotFound ==
    [][\A w \in Workers :
           (Does(w, "update")
              /\ \E f \in PatchNames : req[w][f] /= None
              /\ ~Exists(store, req[w].announcement_id))
              => /\ pc'[w] = "done"
                 /\ NotFound(resp'[w])
                 /\ store' = store
      ]_vars

C7_Witness ==
    \E w \in Workers :
        /\ pc[w] = "done" /\ req[w].op = "update"
        /\ req[w].announcement_id = Str("missing")
        /\ req[w].expiration /= None
        /\ NotFound(resp[w])
        /\ store = SeedAnnouncements

\* C8: Delete by a caller who passed the gate: on an id that names no document
\* it ends NotFound and leaves the store as it was; on the id of a document it
\* returns {success: true} and removes that document and no other; and no later
\* List Active, Update or Delete finds a document under a removed id.
C8_DeleteContract ==
    [][\A w \in Workers :
           /\ Does(w, "delete")
                 => IF Exists(store, req[w].announcement_id)
                    THEN /\ Succeeded(resp'[w])
                         /\ resp'[w].body = [success |-> TRUE]
                         /\ store' = {d \in store :
                                        py_str(d._id) /= req[w].announcement_id}
                         /\ Cardinality(store') = Cardinality(store) - 1
                    ELSE /\ NotFound(resp'[w])
                         /\ store' = store
           /\ (Does(w, "delete") /\ req[w].announcement_id \in removed)
                 => NotFound(resp'[w])
           /\ (Does(w, "update") /\ req[w].announcement_id \in removed)
                 => (NotFound(resp'[w]) \/ NoFieldsToUpdate(resp'[w]))
           /\ Does(w, "list")
                 => \A a \in resp'[w].body : a.id \notin removed
      ]_vars

\* C9: the id Create returned names the created document in later requests of
\* a caller who passed the gate: until a Delete removes it, Update(id,
\* message=m) matches it, sets its message to m, keeps its expiration when none
\* is supplied and returns it under the same id, and Delete(id) succeeds.
C9_ReturnedIdIdentifies ==
    [][\A w \in Workers : \A c \in created :
           (req[w].announcement_id = c.id /\ c.id \notin removed)
              => /\ (Does(w, "update") /\ req[w].message /= None)
                       => /\ pc'[w] = "reread"
                          /\ \E d \in store, e \in store' :
                                /\ d._id = c.key /\ e._id = c.key
                                /\ e.message = req[w].message
                                /\ req[w].expiration = None
                                      => e.expiration = d.expiration
                 /\ Leaves(w, "reread")
                       => /\ Succeeded(resp'[w])
                          /\ \E d \in store :
                                d._id = c.key /\ resp'[w].body = Shown(d)
                 /\ Does(w, "delete") => Succeeded(resp'[w])
      ]_vars

\* C10: every announcement returned by List Active, Create and Update carries
\* id as a str and has no _id field.
C10_NoStorageKeyExposed ==
    \A w \in Workers :
        (pc[w] = "done" /\ Succeeded(resp[w]))
           => LET Clean(a) == /\ "id" \in DOMAIN a
                              /\ a.id.t = "str"
                              /\ "_id" \notin DOMAIN a
              IN  CASE req[w].op = "list" -> \A a \in resp[w].body : Clean(a)
                    [] req[w].op \in {"create", "update"} -> Clean(resp[w].body)
                    [] OTHER -> TRUE

\* the keys of the documents of a collection
Keys(coll) == {d._id : d \in coll}

\* C11: when a concurrent Delete has removed the document between Update's
\* write, which matched it, and Update's re-read, that Update ends NotFound.
C11_RereadAfterDeleteNotFound ==
    [][\A w \in Workers :
           (Leaves(w, "reread")
              /\ req[w].announcement_id \in removed
              /\ ~\E d \in store : d._id = req[w].announcement_id)
              => NotFound(resp'[w])
      ]_vars

\* C12: ids are unique and immutable: no two documents of the store are shown
\* under the same id; a step adds a key only in Create (one new key), drops a
\* key only in a successful Delete (the one named), and otherwise leaves the
\* keys of the store as they are (Update never writes the key).
C12_IdsUniqueAndImmutable ==
    /\ [](\A d, e \in store : py_str(d._id) = py_str(e._id) => d = e)
    /\ [][/\ \A k \in Keys(store') \ Keys(store) :
                 \E w \in Workers :
                     /\ Does(w, "create") /\ resp'[w].body.id = py_str(k)
                     /\ Keys(store') = Keys(store) \cup {k}
          /\ \A k \in Keys(store) \ Keys(store') :
                 \E w \in Workers :
                     /\ Does(w, "delete") /\ Succeeded(resp'[w])
                     /\ req[w].announcement_id = k
                     /\ Keys(store') = Keys(store) \ {k}
          /\ \A w \in Workers :
                 Does(w, "update") => Keys(store') = Keys(store)
         ]_vars

\* after a Create and an Update that matched, the three documents still have
\* three ids, the patched one its own
C12_Witness ==
    /\ Cardinality(store) = 3
    /\ Cardinality({py_str(d._id) : d \in store}) = 3
    /\ \E w \in Workers :
          /\ pc[w] = "done" /\ req[w].op = "update" /\ Succeeded(resp[w])
          /\ resp[w].body.id = req[w].announcement_id
          /\ \E d \in store : d._id = req[w].announcement_id /\ d \notin SeedAnnouncements

\* C13: a successful Update returns the document as the store holds it at the
\* instant of the re-read, every stored field included, and every successful
\* Update result comes from that re-read.
C13_UpdateReturnsReread ==
    [][\A w \in Workers :
           /\ (Leaves(w, "reread") /\ Succeeded(resp'[w]))
                 => \E d \in store :
                        /\ d._id = req[w].announcement_id
                        /\ resp'[w].body = Shown(d)
           /\ (req[w].op = "update" /\ pc[w] /= "done" /\ pc'[w] = "done"
                 /\ Succeeded(resp'[w]))
                 => pc[w] = "reread"
      ]_vars

\* the result differs from the document as this Update's own write left it: a
\* concurrent Update landed between the write and the re-read, and its field,
\* which this request did not supply, is in the result
C13_Witness ==
    \E w \in Workers :
        /\ pc[w] = "done" /\ req[w].op = "update" /\ Succeeded(resp[w])
        /\ wrote[w] /= None
        /\ resp[w].body /= Shown(wrote[w])
        /\ req[w].expiration = None
        /\ resp[w].body.expiration /= wrote[w].expiration
        /\ resp[w].body.message = req[w].message

\* C14: List Active never modifies the store; the passing of time removes
\* nothing; a document leaves the store only in a Delete.
C14_ListActiveReadOnly ==
    [][/\ \A w \in Workers : Does(w, "list") => store' = store
       /\ clock' /= clock => store' = store
       /\ Keys(store) \ Keys(store') /= {}
             => \E w \in Workers : Does(w, "delete")
      ]_vars

\* a listing that left out a document, expired by then, and the store still
\* holds that document and every other
C14_Witness ==
    \E w \in Workers :
        /\ pc[w] = "done" /\ req[w].op = "list" /\ Succeeded(resp[w])
        /\ store = SeedAnnouncements
        /\ Cardinality(resp[w].body) < Cardinality(store)
        /\ \E d \in store :
              d.expiration.v < clock /\ \A a \in resp[w].body : a.id /= py_str(d._id)

\* C15: Update checks authentication first, then the empty patch, then the
\* existence of the document: without a caller it ends Unauthenticated and
\* with an unknown caller InvalidCaller, whatever the fields and the id; with
\* a caller of the directory and no field it ends NoFieldsToUpdate, whatever
\* the id; it ends NotFound only for a caller of the directory who supplied a
\* field.
C15_UpdateFailureOrder ==
    \A w \in Workers :
        (pc[w] = "done" /\ req[w].op = "update")
           => /\ Absent(req[w].username) => Unauthenticated(resp[w])
              /\ (~Absent(req[w].username) /\ ~InDirectory(req[w].username))
                    => InvalidCaller(resp[w])
              /\ (InDirectory(req[w].username)
                    /\ \A f \in PatchNames : req[w][f] = None)
                    => NoFieldsToUpdate(resp[w])
              /\ NotFound(resp[w])
                    => /\ InDirectory(req[w].username)
                       /\ \E f \in PatchNames : req[w][f] /= None

\* a caller of the directory, no field, an id that names nothing
C15_Witness ==
    \E w \in Workers :
        /\ pc[w] = "done" /\ req[w].op = "update"
        /\ InDirectory(req[w].username)
        /\ \A f \in PatchNames : req[w][f] = None
        /\ ~Exists(store, req[w].announcement_id)
        /\ NoFieldsToUpdate(resp[w])

\* C16: two concurrent Updates of the same existing document, one supplying
\* only message and the other only expiration, have both completed and no
\* Delete removed the document: the document holds the new message and the
\* new expiration.
C16_DisjointUpdatesBothApply ==
    \A w, o \in Workers :
        (/\ w /= o
         /\ pc[w] = "done" /\ req[w].op = "update"
         /\ pc[o] = "done" /\ req[o].op = "update"
         /\ req[w].announcement_id = req[o].announcement_id
         /\ req[w].message /= None /\ req[w].expiration = None
         /\ req[w].start_date = None
         /\ req[o].expiration /= None /\ req[o].message = None
         /\ req[o].start_date = None
         /\ Exists(store, req[w].announcement_id))
           => \E d \in store :
                  /\ py_str(d._id) = req[w].announcement_id
                  /\ d.message = req[w].message
                  /\ d.expiration = req[o].expiration

\* C17: two Deletes of the same id run concurrently: the one that finds the
\* document succeeds and removes it and it alone, and the other, running after
\* it, ends NotFound and leaves the store as it is.
C17_ConcurrentDeletesOneWins ==
    [][\A w, o \in Workers :
           (/\ w /= o
            /\ Does(w, "delete")
            /\ req[o].op = "delete"
            /\ req[o].announcement_id = req[w].announcement_id)
              => IF Exists(store, req[w].announcement_id)
                 THEN /\ ~(pc[o] = "done" /\ Succeeded(resp[o]))
                      /\ Succeeded(resp'[w])
                      /\ store' = {d \in store :
                                     py_str(d._id) /= req[w].announcement_id}
                 ELSE /\ NotFound(resp'[w])
                      /\ store' = store
      ]_vars

\* C18: every document of the store has a message and an expiration that are
\* not None, and a step never turns the start_date of a document that stays
\* in the store from a value to None.
C18_FieldsNeverCleared ==
    /\ [](\A d \in store : d.message /= None /\ d.expiration /= None)
    /\ [][\A d \in store, e \in store' :
              (e._id = d._id /\ d.start_date /= None) => e.start_date /= None
         ]_vars

\* an Update that did not supply start_date returns the start_date an
\* earlier Update had set on a document seeded without one
C18_Witness ==
    \E w \in Workers :
        /\ pc[w] = "done" /\ req[w].op = "update" /\ Succeeded(resp[w])
        /\ req[w].start_date = None
        /\ resp[w].body.start_date /= None
        /\ \E d \in SeedAnnouncements :
              py_str(d._id) = resp[w].body.id /\ d.start_date = None

====
